---------------------------- MODULE Spec2Model ----------------------------
(***************************************************************************)
(* The OI signal engine of backend/app/signals/oi_signal_engine.py and its *)
(* start/stop mutations (backend/app/graphql/mutations.py).                *)
(*                                                                         *)
(* Floats are modelled as exact rationals <<numerator, denominator>> with  *)
(* a positive denominator; times are counted in whole minutes.             *)
(***************************************************************************)
EXTENDS Integers, Sequences, FiniteSets, TLC

(***************************************************************************)
(* Bounds of the model.                                                    *)
(***************************************************************************)
MaxTasks == 2

(***************************************************************************)
(* Program constants.                                                      *)
(***************************************************************************)
MinIV == 15
StrongOIChange == 20
MediumOIChange == 10
MinOIAbsolute == 1000
TopSignals == 10
ClosedPollMinutes == 1
CycleMinutes == 5
ErrorBackoffMinutes == 1
WindowMinutes == 5

(***************************************************************************)
(* Rationals.                                                              *)
(***************************************************************************)
Abs(n) == IF n < 0 THEN -n ELSE n

RECURSIVE GCD(_, _)
GCD(a, b) == IF b = 0 THEN a ELSE GCD(b, a % b)

\* n/d in lowest terms, d # 0.
Frac(n, d) ==
    LET g == GCD(Abs(n), Abs(d))
    IN  IF d < 0 THEN <<(-n) \div g, (-d) \div g>> ELSE <<n \div g, d \div g>>

FLe(a, b) == a[1] * b[2] <= b[1] * a[2]

FLt(a, b) == a[1] * b[2] < b[1] * a[2]

FEq(a, b) == a[1] * b[2] = b[1] * a[2]

FAbs(a) == IF a[1] < 0 THEN <<-a[1], a[2]>> ELSE a

FMin(a, b) == IF FLt(b, a) THEN b ELSE a

FMax(a, b) == IF FLt(a, b) THEN b ELSE a

Int2F(n) == <<n, 1>>

FAdd(a, b) == Frac(a[1] * b[2] + b[1] * a[2], a[2] * b[2])

FDiv(a, b) == Frac(a[1] * b[2], a[2] * b[1])

(***************************************************************************)
(* Market calendar.  A wall-clock reading is <<weekday, minute of day>>,   *)
(* Monday = 0.                                                             *)
(***************************************************************************)
Exchanges == <<"MCX", "NSE", "NFO">>

trading_hours ==
    [MCX |-> [start |-> 9 * 60, end |-> 23 * 60 + 30],
     NSE |-> [start |-> 9 * 60 + 20, end |-> 15 * 60 + 30],
     NFO |-> [start |-> 9 * 60 + 20, end |-> 15 * 60 + 30]]

is_market_open_before_end(exchange, now_ist) ==
    IF now_ist[1] > 4 THEN FALSE
    ELSE IF exchange \notin DOMAIN trading_hours THEN FALSE
    ELSE /\ trading_hours[exchange].start <= now_ist[2]
         /\ now_ist[2] < trading_hours[exchange].end

is_market_open(exchange, now_ist) ==
    IF now_ist[1] > 4 THEN FALSE
    ELSE IF exchange \notin DOMAIN trading_hours THEN FALSE
    ELSE /\ trading_hours[exchange].start <= now_ist[2]
         /\ now_ist[2] <= trading_hours[exchange].end

get_active_exchanges(now_ist) ==
    SelectSeq(Exchanges, LAMBDA e : is_market_open(e, now_ist))

\* The wall-clock readings the loop is run against: Saturday noon, Monday
\* 08:00, Friday 23:00 and Tuesday 10:00.
Instants == {<<5, 12 * 60>>, <<0, 8 * 60>>, <<4, 23 * 60>>, <<1, 10 * 60>>}

weekday_names ==
    <<"Monday", "Tuesday", "Wednesday", "Thursday", "Friday", "Saturday",
      "Sunday">>

NextTradingDay_tomorrow(current_weekday) ==
    [next_trading_day |-> weekday_names[((current_weekday + 1) % 7) + 1],
     days_until_next |-> 1]

\* The next trading day and the days until it, as computed from the weekday.
NextTradingDay(current_weekday) ==
    IF current_weekday = 4
    THEN [next_trading_day |-> "Monday", days_until_next |-> 3]
    ELSE IF current_weekday = 5
    THEN [next_trading_day |-> "Monday", days_until_next |-> 2]
    ELSE IF current_weekday = 6
    THEN [next_trading_day |-> "Monday", days_until_next |-> 1]
    ELSE [next_trading_day |-> weekday_names[(current_weekday + 1) + 1],
          days_until_next |-> 1]

get_detailed_market_status_unmasked(now_ist) ==
    LET current_weekday == now_ist[1]
        active_exchanges == get_active_exchanges(now_ist)
        next == NextTradingDay(current_weekday)
    IN  [current_day |-> weekday_names[current_weekday + 1],
         is_trading_day |-> current_weekday <= 4,
         is_any_market_open |-> Len(active_exchanges) > 0,
         active_exchanges |-> active_exchanges,
         next_trading_day |-> next.next_trading_day,
         days_until_next_trading |-> next.days_until_next]

get_detailed_market_status(now_ist) ==
    LET current_weekday == now_ist[1]
        is_trading_day == current_weekday <= 4
        active_exchanges == get_active_exchanges(now_ist)
        next == NextTradingDay(current_weekday)
    IN  [current_day |-> weekday_names[current_weekday + 1],
         is_trading_day |-> is_trading_day,
         is_any_market_open |-> Len(active_exchanges) > 0,
         active_exchanges |-> active_exchanges,
         next_trading_day |-> next.next_trading_day,
         days_until_next_trading |->
             IF ~is_trading_day THEN next.days_until_next ELSE 0]

(***************************************************************************)
(* Signal classification.                                                  *)
(***************************************************************************)
calculate_oi_change_percent_as_ratio(current_oi, previous_oi) ==
    IF previous_oi = 0 THEN Int2F(0)
    ELSE Frac(current_oi - previous_oi, previous_oi)

calculate_oi_change_percent(current_oi, previous_oi) ==
    IF previous_oi = 0 THEN Int2F(0)
    ELSE Frac((current_oi - previous_oi) * 100, previous_oi)

IVRaw_puts_as_calls(current_price, strike, option_type) ==
    IF option_type \in {"CE", "CALL", "PE", "PUT"}
    THEN IF current_price > strike
         THEN FMin(Frac((current_price - strike) * 100, strike), Int2F(100))
         ELSE FMax(Frac((strike - current_price) * 50, strike), Int2F(5))
    ELSE Int2F(15)

\* A division by a zero strike raises, and the handler returns 15.0.
IVRaw(current_price, strike, option_type) ==
    IF option_type \in {"CE", "CALL"}
    THEN IF current_price > strike
         THEN FMin(Frac((current_price - strike) * 100, strike), Int2F(100))
         ELSE FMax(Frac((strike - current_price) * 50, strike), Int2F(5))
    ELSE IF option_type \in {"PE", "PUT"}
    THEN IF current_price < strike
         THEN FMin(Frac((strike - current_price) * 100, strike), Int2F(100))
         ELSE FMax(Frac((current_price - strike) * 50, strike), Int2F(5))
    ELSE Int2F(15)

calculate_implied_volatility_unclamped(current_price, strike, option_type) ==
    IF strike = 0 /\ option_type \in {"CE", "CALL", "PE", "PUT"}
    THEN Int2F(15)
    ELSE IVRaw(current_price, strike, option_type)

calculate_implied_volatility(current_price, strike, option_type) ==
    IF strike = 0 /\ option_type \in {"CE", "CALL", "PE", "PUT"}
    THEN Int2F(15)
    ELSE FMax(FMin(IVRaw(current_price, strike, option_type), Int2F(200)), Int2F(0))

determine_signal_strength_exclusive(oi_change_percent, iv, oi_change_abs) ==
    IF /\ FLt(Int2F(StrongOIChange), FAbs(oi_change_percent))
       /\ FLe(Int2F(MinIV), iv)
       /\ Abs(oi_change_abs) > MinOIAbsolute
    THEN "STRONG"
    ELSE IF /\ FLe(Int2F(MediumOIChange), FAbs(oi_change_percent))
            /\ FLe(Int2F(MinIV), iv)
    THEN "MEDIUM"
    ELSE "WEAK"

determine_signal_strength(oi_change_percent, iv, oi_change_abs) ==
    IF /\ FLe(Int2F(StrongOIChange), FAbs(oi_change_percent))
       /\ FLe(Int2F(MinIV), iv)
       /\ Abs(oi_change_abs) >= MinOIAbsolute
    THEN "STRONG"
    ELSE IF /\ FLe(Int2F(MediumOIChange), FAbs(oi_change_percent))
            /\ FLe(Int2F(MinIV), iv)
    THEN "MEDIUM"
    ELSE "WEAK"

determine_signal_type_puts_as_calls(oi_change, option_type) ==
    IF oi_change > 0 THEN "BULLISH" ELSE "BEARISH"

determine_signal_type(oi_change, option_type) ==
    IF option_type \in {"CE", "CALL"}
    THEN IF oi_change > 0 THEN "BULLISH" ELSE "BEARISH"
    ELSE IF option_type \in {"PE", "PUT"}
    THEN IF oi_change > 0 THEN "BEARISH" ELSE "BULLISH"
    ELSE IF oi_change > 0 THEN "BULLISH" ELSE "BEARISH"

(***************************************************************************)
(* Instrument catalog (trading_instruments).  A symbol is its sequence of  *)
(* characters; a nullable column is the empty sequence or <<value>>.       *)
(***************************************************************************)
SUPPORTED_UNDERLYINGS == <<"NIFTY", "BANKNIFTY", "CRUDEOIL", "NATURALGAS">>

SymFut == <<"N", "F", "U", "T">>

SymCE == <<"N", "1", "0", "0", "C", "E">>

SymPE == <<"N", "1", "0", "0", "P", "E">>

Instrument(sym, name, strike, itype, exch) ==
    [symbol |-> sym, name |-> name, strike |-> strike,
     instrumenttype |-> itype, exch_seg |-> exch]

Catalog ==
    <<Instrument(SymFut, "NIFTY", <<>>, "FUTIDX", "NFO"),
      Instrument(SymFut, "BANKNIFTY", <<>>, "FUTIDX", "NFO"),
      Instrument(SymFut, "CRUDEOIL", <<>>, "FUTCOM", "MCX"),
      Instrument(SymFut, "NATURALGAS", <<>>, "FUTCOM", "MCX"),
      Instrument(SymCE, "NIFTY", <<100>>, "OPTIDX", "NFO"),
      Instrument(SymCE, "NIFTY", <<100>>, "OPTIDX", "NFO"),
      Instrument(SymCE, "BANKNIFTY", <<100>>, "OPTIDX", "NFO"),
      Instrument(SymCE, "CRUDEOIL", <<100>>, "OPTFUT", "MCX"),
      Instrument(SymPE, "NIFTY", <<5000>>, "OPTIDX", "NFO"),
      Instrument(SymPE, "NIFTY", <<5000>>, "OPTIDX", "NFO"),
      Instrument(SymPE, "BANKNIFTY", <<100>>, "OPTIDX", "NFO"),
      Instrument(SymPE, "CRUDEOIL", <<100>>, "OPTFUT", "MCX"),
      Instrument(SymCE, "NATURALGAS", <<0>>, "OPTFUT", "MCX"),
      Instrument(SymPE, "NATURALGAS", <<>>, "OPTFUT", "MCX")>>

\* The streaming universe: futures, then calls, then puts.
StreamingTokens ==
    [futures |-> <<1, 2, 3, 4>>,
     options_ce |-> <<5, 6, 7, 8, 13>>,
     options_pe |-> <<9, 10, 11, 12>>]

\* 'CE' in symbol: a substring test.
Contains(sym, sub) ==
    \E i \in 1..(Len(sym) - Len(sub) + 1) :
        \A j \in 1..Len(sub) : sym[i + j - 1] = sub[j]

OptionTypeOf(symbol) ==
    IF Contains(symbol, <<"C", "E">>) THEN "CE"
    ELSE IF Contains(symbol, <<"P", "E">>) THEN "PE"
    ELSE "FUTURE"

\* instrument.strike or current_price
StrikeOr(strike, current_price) ==
    IF strike = <<>> \/ strike[1] = 0 THEN current_price ELSE strike[1]

(***************************************************************************)
(* What the collaborators answer during one cycle: the samples of every    *)
(* token in the lookback window (newest first), whether the catalog call   *)
(* raises, the tokens whose tick query raises and the tokens whose         *)
(* instrument row is not found.                                            *)
(***************************************************************************)
Sample(oi, ltp) == [oi |-> oi, ltp |-> ltp]

Two(prev_oi, cur_oi, ltp) == <<Sample(cur_oi, ltp), Sample(prev_oi, ltp)>>

\* The price that puts an option of the catalog well in the money.
DeepPrice(token) ==
    IF OptionTypeOf(Catalog[token].symbol) = "CE" THEN 130
    ELSE IF Catalog[token].strike = <<5000>> THEN 3000
    ELSE 60

SurgeDelta(token) ==
    (IF token % 2 = 0 THEN 1 ELSE -1) * (600 + 100 * ((token * 5) % 7))

QuietTicks == [t \in 1..Len(Catalog) |-> Two(5000, 5000, DeepPrice(t))]

SurgeTicks ==
    [t \in 1..Len(Catalog) |-> Two(5000, 5000 + SurgeDelta(t), DeepPrice(t))]

MixedTicks ==
    <<Two(5000, 6200, 200),
      <<Sample(5000, 200)>>,
      Two(0, 500, 200),
      Two(5000, 6200, 200),
      Two(5000, 6200, 105),
      Two(5000, 5600, 130),
      Two(5000, 6200, 130),
      Two(5000, 5100, 130),
      Two(2000, 1000, 4950),
      Two(2000, 1000, 3000),
      Two(5000, 6000, 60),
      Two(4995, 5994, 60),
      Two(5000, 6200, 0)>>

Scenario(ticks, catalog_ok, tick_fail, no_instrument) ==
    [ticks |-> ticks, catalog_ok |-> catalog_ok,
     tick_fail |-> tick_fail, no_instrument |-> no_instrument]

Scenarios ==
    {Scenario(QuietTicks, TRUE, {}, {}),
     Scenario(SurgeTicks, TRUE, {}, {}),
     Scenario(MixedTicks, TRUE, {4}, {7}),
     Scenario(SurgeTicks, FALSE, {}, {}),
     Scenario(SurgeTicks, TRUE, 1..Len(Catalog), {})}

(***************************************************************************)
(* OI analyzer.  An Optional result is the empty sequence or <<signal>>.   *)
(***************************************************************************)
\* Its own handler turns a failed tick query into an empty list.
get_latest_oi_data(scn, token) ==
    IF token \in scn.tick_fail THEN <<>> ELSE scn.ticks[token]

SignalOf_unfiltered(token, instrument, current, previous) ==
    LET current_oi == current.oi
        previous_oi == previous.oi
        oi_change == current_oi - previous_oi
        oi_change_percent == calculate_oi_change_percent(current_oi, previous_oi)
        current_price == current.ltp
        option_type == OptionTypeOf(instrument.symbol)
        iv == calculate_implied_volatility(
                  current_price, StrikeOr(instrument.strike, current_price),
                  option_type)
    IN  IF FALSE THEN <<>>
        ELSE <<[token |-> token,
                current_oi |-> current_oi,
                previous_oi |-> previous_oi,
                oi_change |-> oi_change,
                oi_change_percent |-> oi_change_percent,
                current_price |-> current_price,
                implied_volatility |-> iv,
                signal_strength |->
                    determine_signal_strength(oi_change_percent, iv, Abs(oi_change)),
                signal_type |-> determine_signal_type(oi_change, option_type),
                exchange |-> instrument.exch_seg,
                underlying |-> instrument.name,
                strike_price |-> instrument.strike,
                option_type |-> option_type]>>

SignalOf(token, instrument, current, previous) ==
    LET current_oi == current.oi
        previous_oi == previous.oi
        oi_change == current_oi - previous_oi
        oi_change_percent == calculate_oi_change_percent(current_oi, previous_oi)
        current_price == current.ltp
        option_type == OptionTypeOf(instrument.symbol)
        iv == calculate_implied_volatility(
                  current_price, StrikeOr(instrument.strike, current_price),
                  option_type)
    IN  IF FLt(iv, Int2F(MinIV)) THEN <<>>
        ELSE <<[token |-> token,
                current_oi |-> current_oi,
                previous_oi |-> previous_oi,
                oi_change |-> oi_change,
                oi_change_percent |-> oi_change_percent,
                current_price |-> current_price,
                implied_volatility |-> iv,
                signal_strength |->
                    determine_signal_strength(oi_change_percent, iv, Abs(oi_change)),
                signal_type |-> determine_signal_type(oi_change, option_type),
                exchange |-> instrument.exch_seg,
                underlying |-> instrument.name,
                strike_price |-> instrument.strike,
                option_type |-> option_type]>>

analyze_token_oi_any_instrument(scn, token) ==
    LET oi_data == get_latest_oi_data(scn, token)
    IN  IF Len(oi_data) < 2 THEN <<>>
        ELSE SignalOf(token, Catalog[token], oi_data[1], oi_data[2])

analyze_token_oi(scn, token) ==
    LET oi_data == get_latest_oi_data(scn, token)
    IN  IF Len(oi_data) < 2 THEN <<>>
        ELSE IF token \in scn.no_instrument THEN <<>>
        ELSE SignalOf(token, Catalog[token], oi_data[1], oi_data[2])

(***************************************************************************)
(* Signal generation.                                                      *)
(***************************************************************************)
RECURSIVE AnalyzeAll(_, _)
AnalyzeAll(scn, tokens) ==
    IF tokens = <<>> THEN <<>>
    ELSE analyze_token_oi(scn, Head(tokens)) \o AnalyzeAll(scn, Tail(tokens))

\* Where list.sort(key=|oi_change_percent|, reverse=True) puts s: after the
\* elements that are at least as large (the sort is stable).
RECURSIVE InsertDesc(_, _)
InsertDesc(sorted, s) ==
    IF sorted = <<>> THEN <<s>>
    ELSE IF FLt(FAbs(Head(sorted).oi_change_percent), FAbs(s.oi_change_percent))
    THEN <<s>> \o sorted
    ELSE <<Head(sorted)>> \o InsertDesc(Tail(sorted), s)

RECURSIVE SortDesc(_)
SortDesc(signals) ==
    IF signals = <<>> THEN <<>>
    ELSE InsertDesc(SortDesc(SubSeq(signals, 1, Len(signals) - 1)),
                    signals[Len(signals)])

KeepStrength_any(s) == s.signal_strength \in {"STRONG", "MEDIUM", "WEAK"}

KeepStrength(s) == s.signal_strength \in {"STRONG", "MEDIUM"}

valid_signals(signals) == SortDesc(SelectSeq(signals, KeepStrength))

AllTokens ==
    StreamingTokens.futures \o StreamingTokens.options_ce \o StreamingTokens.options_pe

\* The collaborators one call of generate_signals reaches.
GenerateTouches(scn, now_ist) ==
    IF get_active_exchanges(now_ist) = <<>> THEN {}
    ELSE IF ~scn.catalog_ok THEN {"catalog"}
    ELSE {"catalog", "ticks"}

\* Whether a catalog or tick-store call raised during the call.
GenerateFailed(scn, now_ist) ==
    /\ get_active_exchanges(now_ist) # <<>>
    /\ \/ ~scn.catalog_ok
       \/ \E i \in 1..Len(AllTokens) : AllTokens[i] \in scn.tick_fail

generate_signals(scn, now_ist) ==
    IF get_active_exchanges(now_ist) = <<>> THEN <<>>
    ELSE IF ~scn.catalog_ok THEN <<>>
    ELSE valid_signals(AnalyzeAll(scn, AllTokens))

(***************************************************************************)
(* Signal aggregator.  rows are the oi_signals rows of the trailing        *)
(* window, in insertion order; the empty token '' is 0.                    *)
(***************************************************************************)
RECURSIVE SumOIChange(_)
SumOIChange(sigs) ==
    IF sigs = <<>> THEN 0 ELSE Head(sigs).oi_change + SumOIChange(Tail(sigs))

RECURSIVE SumIV(_)
SumIV(sigs) ==
    IF sigs = <<>> THEN Int2F(0)
    ELSE FAdd(Head(sigs).implied_volatility, SumIV(Tail(sigs)))

RECURSIVE MaxIV(_)
MaxIV(sigs) ==
    IF Len(sigs) = 1 THEN sigs[1].implied_volatility
    ELSE FMax(sigs[1].implied_volatility, MaxIV(Tail(sigs)))

RECURSIVE MaxByAbsChange_last_wins(_)
MaxByAbsChange_last_wins(sigs) ==
    IF sigs = <<>> THEN <<>>
    ELSE LET rest == MaxByAbsChange_last_wins(Tail(sigs))
         IN  IF rest # <<>> /\ Abs(rest[1].oi_change) >= Abs(Head(sigs).oi_change)
             THEN rest
             ELSE <<Head(sigs)>>

\* max(sigs, key=|oi_change|, default=None): the first of the largest.
RECURSIVE MaxByAbsChange(_)
MaxByAbsChange(sigs) ==
    IF sigs = <<>> THEN <<>>
    ELSE LET rest == MaxByAbsChange(Tail(sigs))
         IN  IF rest # <<>> /\ Abs(rest[1].oi_change) > Abs(Head(sigs).oi_change)
             THEN rest
             ELSE <<Head(sigs)>>

Sentiment_ties_bullish(bullish_signals, bearish_signals) ==
    IF bullish_signals >= bearish_signals THEN "BULLISH" ELSE "BEARISH"

\* sentiment, from the BULLISH and BEARISH counts.
Sentiment(bullish_signals, bearish_signals) ==
    IF bullish_signals > bearish_signals THEN "BULLISH"
    ELSE IF bearish_signals > bullish_signals THEN "BEARISH"
    ELSE "NEUTRAL"

SentimentScore(bullish_signals, bearish_signals, total) ==
    IF bullish_signals > bearish_signals
    THEN Frac(bullish_signals - bearish_signals, total)
    ELSE IF bearish_signals > bullish_signals
    THEN Frac(-(bearish_signals - bullish_signals), total)
    ELSE Int2F(0)

PcrOI_signed(total_put_oi_change, total_call_oi_change) ==
    IF total_call_oi_change # 0
    THEN Frac(total_put_oi_change, total_call_oi_change)
    ELSE Int2F(0)

\* abs(put / call) if call != 0 else 0
PcrOI(total_put_oi_change, total_call_oi_change) ==
    IF total_call_oi_change # 0
    THEN FAbs(Frac(total_put_oi_change, total_call_oi_change))
    ELSE Int2F(0)

UnderlyingAnalytics(underlying, recent_signals) ==
    LET call_signals == SelectSeq(recent_signals, LAMBDA s : s.option_type = "CE")
        put_signals == SelectSeq(recent_signals, LAMBDA s : s.option_type = "PE")
        total_call_oi_change == SumOIChange(call_signals)
        total_put_oi_change == SumOIChange(put_signals)
        max_call_signal == MaxByAbsChange(call_signals)
        max_put_signal == MaxByAbsChange(put_signals)
        bullish_signals ==
            Len(SelectSeq(recent_signals, LAMBDA s : s.signal_type = "BULLISH"))
        bearish_signals ==
            Len(SelectSeq(recent_signals, LAMBDA s : s.signal_type = "BEARISH"))
        n == Len(recent_signals)
    IN  [underlying |-> underlying,
         total_oi_change |-> total_call_oi_change + total_put_oi_change,
         call_oi_change |-> total_call_oi_change,
         put_oi_change |-> total_put_oi_change,
         max_call_oi_change |->
             IF max_call_signal # <<>> THEN max_call_signal[1].oi_change ELSE 0,
         max_put_oi_change |->
             IF max_put_signal # <<>> THEN max_put_signal[1].oi_change ELSE 0,
         max_call_oi_token |->
             IF max_call_signal # <<>> THEN max_call_signal[1].token ELSE 0,
         max_put_oi_token |->
             IF max_put_signal # <<>> THEN max_put_signal[1].token ELSE 0,
         avg_iv |-> FDiv(SumIV(recent_signals), Int2F(n)),
         max_iv |-> MaxIV(recent_signals),
         high_iv_count |->
             Len(SelectSeq(recent_signals,
                           LAMBDA s : FLt(Int2F(15), s.implied_volatility))),
         pcr_oi |-> PcrOI(total_put_oi_change, total_call_oi_change),
         market_sentiment |-> Sentiment(bullish_signals, bearish_signals),
         sentiment_score |->
             SentimentScore(bullish_signals, bearish_signals, n),
         exchange |-> recent_signals[1].exchange]

RowSignals(rows) == [i \in 1..Len(rows) |-> rows[i].sig]

RECURSIVE AnalyticsFor(_, _)
AnalyticsFor(underlyings, rows) ==
    IF underlyings = <<>> THEN <<>>
    ELSE LET recent_signals ==
                 SelectSeq(RowSignals(rows),
                           LAMBDA s : s.underlying = Head(underlyings))
             rest == AnalyticsFor(Tail(underlyings), rows)
         IN  IF recent_signals = <<>> THEN rest
             ELSE <<UnderlyingAnalytics(Head(underlyings), recent_signals)>> \o rest

\* The dict of analytics, as the sequence of its values in insertion order.
calculate_market_analytics(rows) == AnalyticsFor(SUPPORTED_UNDERLYINGS, rows)

(***************************************************************************)
(* State.                                                                  *)
(*   is_running, current_signals: the engine's fields; current_signals is  *)
(*     a reference into heap, the list objects (an unreferenced object is  *)
(*     collected: reset to the empty list).                                *)
(*   reader: the list a caller of get_current_signals holds (0: none).     *)
(*   pc, signals, db, remaining: each run_signal_analysis task's position, *)
(*     its local 'signals' while a cycle is in flight, the number of       *)
(*     sessions it holds open and the minutes left of its sleep.           *)
(*   oi_signals: the rows of the table that lie in the trailing window of  *)
(*     the aggregator, in insertion order, with their age in minutes.      *)
(*   oi_analytics: the rows written to the table within the minute (the    *)
(*     engine never reads them back).                                      *)
(*   last: what the latest step did: the operation, the task, the answer   *)
(*     or outcome, the collaborators it called, whether a catalog or tick  *)
(*     call raised, what store_signals returned (-1: not called) and the   *)
(*     exception the loop caught.                                          *)
(***************************************************************************)
VARIABLES is_running, current_signals, heap, reader,
          pc, signals, db, remaining,
          oi_signals, oi_analytics, last

vars == <<is_running, current_signals, heap, reader,
          pc, signals, db, remaining,
          oi_signals, oi_analytics, last>>

engine_vars == <<is_running, current_signals, heap>>

task_vars == <<pc, signals, db, remaining>>

table_vars == <<oi_signals, oi_analytics>>

Tasks == 1..MaxTasks

ObjIds == {1, 2}

Sleeping == {"sleep_closed", "sleep_cycle", "sleep_error"}

Alive(t) == pc[t] \notin {"none", "done"}

LiveTasks == {t \in Tasks : Alive(t)}

Min(S) == CHOOSE x \in S : \A y \in S : x <= y

\* A fresh list object: one nobody in held refers to.
NewObj(held) == Min(ObjIds \ held)

\* The heap once the objects outside refs are collected.
Collect(h, refs) == [o \in ObjIds |-> IF o \in refs THEN h[o] ELSE <<>>]

\* lst[:n]
Slice(lst, n) ==
    IF n >= 0 THEN SubSeq(lst, 1, IF n < Len(lst) THEN n ELSE Len(lst))
    ELSE SubSeq(lst, 1, Len(lst) + n)

Cache == heap[current_signals]

Did(op, t, result, touched, fault, stored, raised) ==
    [op |-> op, task |-> t, result |-> result, touched |-> touched,
     fault |-> fault, stored |-> stored, raised |-> raised]

Plain(op, t, result) == Did(op, t, result, {}, FALSE, -1, "none")

Init ==
    /\ is_running = FALSE
    /\ current_signals = 1
    /\ heap = [o \in ObjIds |-> <<>>]
    /\ reader = 0
    /\ pc = [t \in Tasks |-> "none"]
    /\ signals = [t \in Tasks |-> <<>>]
    /\ db = [t \in Tasks |-> 0]
    /\ remaining = [t \in Tasks |-> 0]
    /\ oi_signals = <<>>
    /\ oi_analytics = <<>>
    /\ last = Plain("init", 0, "none")

(***************************************************************************)
(* The start/stop mutations.                                               *)
(***************************************************************************)
\* asyncio.create_task(run_signal_analysis()): the task is scheduled and
\* runs its first statement later.
CreateTask ==
    /\ \E t \in Tasks : ~Alive(t)
    /\ pc' = [pc EXCEPT ![Min({t \in Tasks : ~Alive(t)})] = "created"]

start_oi_signal_engine_unguarded ==
    /\ CreateTask
    /\ last' = Plain("start", 0, "started")
    /\ UNCHANGED <<engine_vars, reader, signals, db, remaining, table_vars>>

start_oi_signal_engine ==
    IF is_running
    THEN /\ last' = Plain("start", 0, "already running")
         /\ UNCHANGED <<engine_vars, reader, task_vars, table_vars>>
    ELSE /\ CreateTask
         /\ last' = Plain("start", 0, "started")
         /\ UNCHANGED <<engine_vars, reader, signals, db, remaining, table_vars>>

stop_analysis == is_running' = FALSE

stop_oi_signal_engine ==
    IF ~is_running
    THEN /\ last' = Plain("stop", 0, "not running")
         /\ UNCHANGED <<engine_vars, reader, task_vars, table_vars>>
    ELSE /\ stop_analysis
         /\ last' = Plain("stop", 0, "stopped")
         /\ UNCHANGED <<current_signals, heap, reader, task_vars, table_vars>>

(***************************************************************************)
(* run_signal_analysis.  A task runs from one sleep to the next; a cycle   *)
(* that produced signals is taken in two steps, so that other steps can    *)
(* fall between generating the signals and persisting them.                *)
(***************************************************************************)
LoopCondition_always == TRUE

\* while self.is_running
LoopCondition == is_running

GoSleep(t, state, minutes) ==
    /\ pc' = [pc EXCEPT ![t] = state]
    /\ remaining' = [remaining EXCEPT ![t] = minutes]

LoopExcept_returns(t) == GoSleep(t, "done", 0)

\* except Exception: log, sleep 60 s, go round again.
LoopExcept(t) == GoSleep(t, "sleep_error", ErrorBackoffMinutes)

CloseAndExcept_leaks(t) ==
    /\ UNCHANGED db
    /\ LoopExcept(t)

\* finally: db.close(), then the loop's except clause.
CloseAndExcept(t) ==
    /\ db' = [db EXCEPT ![t] = 0]
    /\ LoopExcept(t)

\* The calendar test of the loop: no exchange open.
MarketsClosed(now_ist) == get_active_exchanges(now_ist) = <<>>

ClosedPoll_as_cycle(t) == GoSleep(t, "sleep_cycle", CycleMinutes)

\* Markets closed: sleep 60 s and go round again.
ClosedPoll(t) == GoSleep(t, "sleep_closed", ClosedPollMinutes)

CycleSleep_backoff(t) == GoSleep(t, "sleep_cycle", ErrorBackoffMinutes)

\* The cycle is over: sleep 300 s.
CycleSleep(t) == GoSleep(t, "sleep_cycle", CycleMinutes)

\* One iteration up to its sleep or to the signals of a cycle: SessionLocal(),
\* the calendar check, generate_signals.  held is the number of sessions the
\* task still holds when the iteration begins.
Iterate(t, op, held) ==
    \/ /\ LoopExcept(t)
       /\ db' = [db EXCEPT ![t] = held]
       /\ UNCHANGED signals
       /\ last' = Did(op, t, "error", {}, FALSE, -1, "session")
    \/ /\ db' = [db EXCEPT ![t] = held + 1]
       /\ \E now_ist \in Instants :
            IF MarketsClosed(now_ist)
            THEN /\ ClosedPoll(t)
                 /\ UNCHANGED signals
                 /\ last' = Plain(op, t, "closed")
            ELSE \E scn \in Scenarios, now2 \in Instants :
                    LET sigs == generate_signals(scn, now2)
                        touched == GenerateTouches(scn, now2)
                        fault == GenerateFailed(scn, now2)
                    IN  IF sigs = <<>>
                        THEN /\ CycleSleep(t)
                             /\ UNCHANGED signals
                             /\ last' = Did(op, t, "empty", touched, fault,
                                            -1, "none")
                        ELSE /\ pc' = [pc EXCEPT ![t] = "cycle"]
                             /\ signals' = [signals EXCEPT ![t] = sigs]
                             /\ UNCHANGED remaining
                             /\ last' = Did(op, t, "generated", touched,
                                            fault, -1, "none")

\* The first step of the task: is_running = True, then the first iteration.
Begin(t) ==
    /\ pc[t] = "created"
    /\ is_running' = TRUE
    /\ Iterate(t, "begin", 0)
    /\ UNCHANGED <<current_signals, heap, reader, table_vars>>

\* The sleep is over.  After the two sleeps inside the inner try the finally
\* clause closes the session; then the loop test.
Wake(t) ==
    /\ pc[t] \in Sleeping
    /\ remaining[t] = 0
    /\ LET held == IF pc[t] = "sleep_error" THEN db[t] ELSE db[t] - 1
       IN  IF LoopCondition
           THEN Iterate(t, "wake", held)
           ELSE /\ pc' = [pc EXCEPT ![t] = "done"]
                /\ db' = [db EXCEPT ![t] = held]
                /\ last' = Plain("wake", t, "exit")
                /\ UNCHANGED <<signals, remaining>>
    /\ UNCHANGED <<engine_vars, reader, table_vars>>

Row(sig) == [sig |-> sig, age |-> 0]

Rows(list) == [i \in 1..Len(list) |-> Row(list[i])]

\* store_signals: every row is added, then one commit; a failure is rolled
\* back.  The table afterwards.
store_signals(table, list, committed) ==
    IF committed THEN table \o Rows(list) ELSE table

\* What store_signals returns.
stored_count(list, committed) == IF committed THEN Len(list) ELSE 0

\* store_analytics: as store_signals.
store_analytics(table, analytics, committed) ==
    IF committed THEN table \o analytics ELSE table

\* self.current_signals = signals[:10]
UpdateCache(list) ==
    LET new == NewObj({reader} \ {0})
    IN  /\ current_signals' = new
        /\ heap' = Collect([heap EXCEPT ![new] = Slice(list, TopSignals)],
                           {new, reader})

PersistSignals_if_stored(t, committed) ==
    /\ oi_signals' = store_signals(oi_signals, signals[t], committed)
    /\ IF committed THEN UpdateCache(signals[t])
       ELSE UNCHANGED <<current_signals, heap>>

\* stored_count = await self.store_signals(db, signals), then the cache is
\* replaced whatever store_signals returned.
PersistSignals(t, committed) ==
    /\ oi_signals' = store_signals(oi_signals, signals[t], committed)
    /\ UpdateCache(signals[t])

\* The rest of a cycle with signals: store them, replace the cache, compute
\* and store the analytics, sleep.  A rollback that raises leaves the try
\* block; calculate_market_analytics answers a failed query with {}
\* ('analytics failed'), as it answers an empty window ('no analytics').
Persist(t) ==
    /\ pc[t] = "cycle"
    /\ signals' = [signals EXCEPT ![t] = <<>>]
    /\ UNCHANGED <<is_running, reader>>
    /\ \/ /\ CloseAndExcept(t)
          /\ UNCHANGED <<current_signals, heap, table_vars>>
          /\ last' = Did("persist", t, "error", {"store"}, FALSE, -1, "rollback")
       \/ \E committed \in BOOLEAN :
            LET table == store_signals(oi_signals, signals[t], committed)
                stored == stored_count(signals[t], committed)
                analytics == calculate_market_analytics(table)
            IN  /\ PersistSignals(t, committed)
                /\ \/ /\ CycleSleep(t)
                      /\ UNCHANGED <<db, oi_analytics>>
                      /\ last' = Did("persist", t,
                                     IF analytics = <<>> THEN "no analytics"
                                     ELSE "analytics failed",
                                     {"store"}, FALSE, stored, "none")
                   \/ /\ analytics # <<>>
                      /\ \E saved \in BOOLEAN :
                            /\ oi_analytics' =
                                   store_analytics(oi_analytics, analytics, saved)
                            /\ last' = Did("persist", t,
                                           IF saved THEN "analytics stored"
                                           ELSE "analytics lost",
                                           {"store"}, FALSE, stored, "none")
                      /\ CycleSleep(t)
                      /\ UNCHANGED db
                   \/ /\ analytics # <<>>
                      /\ CloseAndExcept(t)
                      /\ UNCHANGED oi_analytics
                      /\ last' = Did("persist", t, "error", {"store"}, FALSE,
                                     stored, "rollback")

(***************************************************************************)
(* Time.  A cycle's computation is short against a minute: a minute        *)
(* passes while every task sleeps, and a task that is due wakes first.     *)
(***************************************************************************)
Older(rows) ==
    SelectSeq([i \in 1..Len(rows) |-> [rows[i] EXCEPT !.age = @ + 1]],
              LAMBDA r : r.age < WindowMinutes)

MinutePasses ==
    /\ \A t \in Tasks : Alive(t) => pc[t] \in Sleeping /\ remaining[t] > 0
    /\ LiveTasks # {} \/ oi_signals # <<>> \/ oi_analytics # <<>>
    /\ remaining' = [t \in Tasks |-> IF Alive(t) THEN remaining[t] - 1 ELSE 0]
    /\ oi_signals' = Older(oi_signals)
    /\ oi_analytics' = <<>>
    /\ last' = Plain("minute", 0, "none")
    /\ UNCHANGED <<engine_vars, reader, pc, signals, db>>

(***************************************************************************)
(* A caller of get_current_signals, and what it does with the list.        *)
(***************************************************************************)
Limits == {2, 10, 20}

get_current_signals_live(limit) ==
    /\ reader' = current_signals
    /\ heap' = Collect(heap, {current_signals})

\* return self.current_signals[:limit]: a new list object.
get_current_signals(limit) ==
    LET new == NewObj({current_signals})
    IN  /\ reader' = new
        /\ heap' = Collect([heap EXCEPT ![new] = Slice(Cache, limit)],
                           {new, current_signals})

GetCurrentSignals ==
    /\ \E limit \in Limits : get_current_signals(limit)
    /\ last' = Plain("read", 0, "none")
    /\ UNCHANGED <<is_running, current_signals, task_vars, table_vars>>

\* The caller empties its list, or appends one of its elements again.
ReaderMutates ==
    /\ reader # 0
    /\ heap[reader] # <<>>
    /\ \/ heap' = [heap EXCEPT ![reader] = <<>>]
       \/ /\ Len(heap[reader]) <= 2
          /\ heap' = [heap EXCEPT ![reader] = Append(@, @[1])]
    /\ last' = Plain("mutate", 0, "none")
    /\ UNCHANGED <<is_running, current_signals, reader, task_vars, table_vars>>

ReaderDrops ==
    /\ reader # 0
    /\ reader' = 0
    /\ heap' = Collect(heap, {current_signals})
    /\ last' = Plain("drop", 0, "none")
    /\ UNCHANGED <<is_running, current_signals, task_vars, table_vars>>

(***************************************************************************)
(* Specifications.                                                         *)
(***************************************************************************)
TaskStep(t) ==
    \/ Begin(t)
    \/ Persist(t)
    \/ Wake(t)

\* The callers of Spec start the engine while it reports running (and are
\* refused) or once no loop is left: not while a stopped loop is still on
\* its way out.
StartAllowed == is_running \/ LiveTasks = {}

Request ==
    \/ StartAllowed /\ start_oi_signal_engine
    \/ stop_oi_signal_engine

EngineNext ==
    \/ Request
    \/ \E t \in Tasks : TaskStep(t)
    \/ MinutePasses

Next ==
    \/ EngineNext
    \/ GetCurrentSignals
    \/ ReaderMutates
    \/ ReaderDrops

Spec == Init /\ [][Next]_vars

EngineSpec == Init /\ [][EngineNext]_vars

\* The requests as they can arrive: at any time, whatever the loops do.  The
\* cycles are those that keep no signal, which touch neither the store nor
\* the cache.
QuietStep(t) ==
    /\ Begin(t) \/ Wake(t)
    /\ pc'[t] # "cycle"

LifecycleNext ==
    \/ start_oi_signal_engine
    \/ stop_oi_signal_engine
    \/ \E t \in Tasks : QuietStep(t)
    \/ MinutePasses

LifecycleSpec == Init /\ [][LifecycleNext]_vars

\* The event loop runs every task that is ready, and time passes.
Fairness ==
    /\ \A t \in Tasks : WF_vars(TaskStep(t))
    /\ WF_vars(MinutePasses)

LiveSpec == EngineSpec /\ Fairness

(***************************************************************************)
(* The classification and aggregation functions called on their own, with  *)
(* arguments drawn from small sets that hit the thresholds on both sides.  *)
(* last records the call: the function, its arguments and what it          *)
(* returned.                                                               *)
(***************************************************************************)
Tenths(S) == {Frac(n, 10) : n \in S}

PctValues == Tenths({-500, -200, -199, -100, -99, 0, 99, 100, 199, 200, 240})

IVValues == Tenths({0, 50, 149, 150, 151, 400, 2000})

ChangeValues == {-1200, -1000, -999, 0, 1, 999, 1000, 1200}

OptionTypes == {"CE", "PE", "FUTURE", "CALL", "PUT"}

OIValues == {0, 1000, 4995, 5000, 5500, 5994, 6000}

PriceValues == {0, 60, 105, 114, 115, 130, 3000}

IVPrices == {-1000, -1, 0, 1, 60, 100, 105, 115, 400, 3000}

IVStrikes == {-100, 0, 1, 100, 5000}

\* An open interest no sample of OIValues has: the third newest sample.
OlderOI == CHOOSE n \in 1..10 : n \notin OIValues

Called(op, args, result) == [op |-> op, args |-> args, result |-> result]

CallStrength ==
    \E pct \in PctValues, iv \in IVValues, change \in ChangeValues :
        last' = Called("determine_signal_strength", <<pct, iv, change>>,
                       determine_signal_strength(pct, iv, change))

CallType ==
    \E change \in ChangeValues, option_type \in OptionTypes :
        last' = Called("determine_signal_type", <<change, option_type>>,
                       determine_signal_type(change, option_type))

CallPercent ==
    \E current_oi \in OIValues, previous_oi \in OIValues :
        last' = Called("calculate_oi_change_percent",
                       <<current_oi, previous_oi>>,
                       calculate_oi_change_percent(current_oi, previous_oi))

CallIV ==
    \E price \in IVPrices, strike \in IVStrikes, option_type \in OptionTypes :
        last' = Called("calculate_implied_volatility",
                       <<price, strike, option_type>>,
                       calculate_implied_volatility(price, strike, option_type))

\* analyze_token_oi for one token of the catalog: n samples in the window
\* (newest first), the instrument row found or not.
CallAnalyze ==
    \E token \in 1..Len(Catalog), current_oi \in OIValues,
       previous_oi \in OIValues, ltp \in PriceValues, n \in 0..3,
       found \in BOOLEAN :
        LET samples == SubSeq(<<Sample(current_oi, ltp),
                                Sample(previous_oi, ltp),
                                Sample(OlderOI, ltp)>>, 1, n)
            scn == Scenario([k \in 1..Len(Catalog) |-> samples], TRUE, {},
                            IF found THEN {} ELSE {token})
        IN  last' = Called("analyze_token_oi",
                           [token |-> token, samples |-> samples,
                            found |-> found],
                           analyze_token_oi(scn, token))


\* The signals the aggregator is called on: what analyze_token_oi emits for
\* the options and the future of one underlying and of its neighbour.
PoolTokens == {1, 5, 9, 11}

PoolMoves == {<<5000, 6000>>, <<6000, 5000>>, <<5000, 5500>>}

SignalPool ==
    {SignalOf(token, Catalog[token], Sample(m[2], DeepPrice(token)),
              Sample(m[1], DeepPrice(token)))[1] :
         token \in PoolTokens, m \in PoolMoves}

MaxRows == 3

RowLists == UNION {[1..n -> SignalPool] : n \in 0..MaxRows}

CallAggregate ==
    \E list \in RowLists :
        last' = Called("calculate_market_analytics", list,
                       calculate_market_analytics(Rows(list)))

\* Wall-clock readings: every weekday, at the minutes on both sides of each
\* window's bounds.
ClockMinutes ==
    {0, 9 * 60 - 1, 9 * 60, 9 * 60 + 19, 9 * 60 + 20, 12 * 60, 15 * 60 + 30,
     15 * 60 + 31, 23 * 60, 23 * 60 + 30, 23 * 60 + 31, 24 * 60 - 1}

Clock == (0..6) \X ClockMinutes

ExchangeNames == {"MCX", "NSE", "NFO", "BSE"}

CallMarketOpen ==
    \E exchange \in ExchangeNames, now_ist \in Clock :
        last' = Called("is_market_open", <<exchange, now_ist>>,
                       is_market_open(exchange, now_ist))

CallActiveExchanges ==
    \E now_ist \in Clock :
        last' = Called("get_active_exchanges", now_ist,
                       get_active_exchanges(now_ist))

CallMarketStatus ==
    \E now_ist \in Clock :
        last' = Called("get_detailed_market_status", now_ist,
                       get_detailed_market_status(now_ist))

CallGenerate ==
    \E scn \in Scenarios, now_ist \in Instants :
        last' = Called("generate_signals", [scn |-> scn, now_ist |-> now_ist],
                       generate_signals(scn, now_ist))

\* One call in a run: the functions keep no state between calls.
UnitNext ==
    /\ last.op = "init"
    /\ \/ CallStrength
       \/ CallType
       \/ CallPercent
       \/ CallIV
       \/ CallAnalyze
       \/ CallAggregate
       \/ CallGenerate
       \/ CallMarketOpen
       \/ CallActiveExchanges
       \/ CallMarketStatus
    /\ UNCHANGED <<engine_vars, reader, task_vars, table_vars>>

UnitSpec == Init /\ [][UnitNext]_vars

(***************************************************************************)
(* Properties.                                                             *)
(***************************************************************************)
InFlight(t) == pc[t] = "cycle"

Running(t) == pc[t] \in Sleeping \/ InFlight(t)

\* C1: a start request made while is_running is true is answered with
\* 'already running' and creates no run_signal_analysis task: no task
\* changes its position, so the number of live loop tasks does not grow.
C1_StartWhileRunning ==
    [][(is_running /\ last'.op = "start")
         => /\ last'.result = "already running"
            /\ pc' = pc
            /\ Cardinality(LiveTasks') <= Cardinality(LiveTasks)]_vars

C1_Witness ==
    /\ last.op = "start"
    /\ last.result = "already running"
    /\ is_running
    /\ Cardinality(LiveTasks) = 1

\* C2: once stop has cleared is_running on a running loop (and no start
\* follows), the loop exits: the wake-up that finds the flag false runs no
\* further iteration and the task ends.  A cycle that is in flight when the
\* flag is cleared is not interrupted: its next step is the persist step,
\* which stores the signals, replaces the cache and stores the analytics.
C2_StopIsCooperative ==
    /\ \A t \in Tasks : (Running(t) /\ ~is_running) ~> (pc[t] = "done")
    /\ [][(last'.op = "wake" /\ ~is_running)
            => /\ last'.result = "exit"
               /\ pc'[last'.task] = "done"
               /\ UNCHANGED <<current_signals, heap, table_vars>>]_vars
    /\ [][\A t \in Tasks :
            (InFlight(t) /\ ~is_running /\ pc'[t] # pc[t])
            => /\ last'.op = "persist"
               /\ "store" \in last'.touched
               /\ pc'[t] \in {"sleep_cycle", "sleep_error"}
               /\ (last'.raised = "none"
                   => Cache' = Slice(signals[t], TopSignals))]_vars

C2_Witness ==
    /\ last.op = "wake"
    /\ last.result = "exit"
    /\ pc[last.task] = "done"
    /\ ~is_running
    /\ oi_signals # <<>>
    /\ Cache # <<>>

\* C3: no exception ends the loop.  Whatever is raised inside an iteration,
\* a failure to open the session at the first or a later iteration included,
\* the task goes to the 60 s sleep and its wake-up starts another iteration
\* while is_running holds; a task ends only at a wake-up that finds
\* is_running false.
C3_OnlyTheFlagEndsTheLoop ==
    [][/\ \A t \in Tasks :
            (pc'[t] = "done" /\ pc[t] # "done")
            => /\ pc[t] \in Sleeping
               /\ ~is_running
               /\ last'.op = "wake"
               /\ last'.raised = "none"
       /\ last'.raised # "none"
            => /\ pc'[last'.task] = "sleep_error"
               /\ remaining'[last'.task] = ErrorBackoffMinutes
       /\ \A t \in Tasks :
            (pc[t] = "sleep_error" /\ pc'[t] # pc[t] /\ is_running)
            => /\ last'.op = "wake"
               /\ Running(t)']_vars

C3_Witness ==
    /\ last.op = "wake"
    /\ last.raised = "session"
    /\ pc[last.task] = "sleep_error"
    /\ remaining[last.task] = ErrorBackoffMinutes
    /\ is_running

\* C4: an iteration that finds no exchange open calls neither the catalog
\* nor the tick store nor the signal/analytics store, leaves the cache and
\* the tables as they are, sleeps 60 s and then checks the calendar again.
C4_ClosedIterationIsIdle ==
    [][/\ last'.result = "closed"
            => /\ last'.touched = {}
               /\ UNCHANGED <<current_signals, heap, table_vars>>
               /\ pc'[last'.task] = "sleep_closed"
               /\ remaining'[last'.task] = ClosedPollMinutes
       /\ \A t \in Tasks :
            (pc[t] = "sleep_closed" /\ pc'[t] # pc[t])
            => /\ last'.op = "wake"
               /\ remaining[t] = 0
               /\ is_running => last'.result \in
                       {"closed", "empty", "generated", "error"}]_vars

C4_Witness ==
    /\ last.op = "wake"
    /\ last.result = "closed"
    /\ pc[last.task] = "sleep_closed"
    /\ Cache # <<>>
    /\ oi_signals # <<>>

\* C5: a cycle in which a catalog or tick-store call raised is followed by
\* the 60 s error sleep, not by the 300 s sleep between cycles.
C5_FailedCallBacksOff ==
    last.fault => /\ pc[last.task] = "sleep_error"
                  /\ remaining[last.task] = ErrorBackoffMinutes

\* C6: when store_signals fails and rolls back (it returns 0 for a cycle
\* that kept signals), the cache is still replaced with the first 10 of the
\* cycle's signals, none of them reaches the table now or on a later retry
\* (the task drops its list), and unless the analytics store raises in turn
\* the task goes to the ordinary 300 s sleep.
C6_CacheDoesNotWaitForTheStore ==
    [][\A t \in Tasks :
         (InFlight(t) /\ last'.op = "persist" /\ last'.task = t
            /\ last'.stored = 0)
         => /\ signals[t] # <<>>
            /\ Cache' = Slice(signals[t], TopSignals)
            /\ oi_signals' = oi_signals
            /\ signals'[t] = <<>>
            /\ last'.raised = "none"
                 => /\ pc'[t] = "sleep_cycle"
                    /\ remaining'[t] = CycleMinutes]_vars

C6_Witness ==
    /\ last.op = "persist"
    /\ last.stored = 0
    /\ last.raised = "none"
    /\ pc[last.task] = "sleep_cycle"
    /\ oi_signals = <<>>
    /\ Len(Cache) = TopSignals

\* C7: after a completed cycle that kept no signal (markets open, catalog
\* and tick store answered), the cache is empty: the first 10 of nothing.
C7_CacheFollowsEveryCycle ==
    (/\ last.result = "empty"
     /\ last.touched = {"catalog", "ticks"}
     /\ ~last.fault)
    => Cache = <<>>

Held == IF reader = 0 THEN <<>> ELSE heap[reader]

\* C8: get_current_signals hands out a list object of its own, never the
\* cache's.  The list a reader holds is not changed by the loop replacing
\* the cache, and a reader that adds or removes elements of its list changes
\* neither the cache nor, therefore, what the next reader is handed.
C8_ReadersHoldCopies ==
    /\ [](reader # current_signals)
    /\ [][last'.op = "read"
            => \E limit \in Limits :
                  /\ heap'[reader'] = Slice(Cache, limit)
                  /\ Cache' = Cache]_vars
    /\ [][last'.op \in {"persist", "begin", "wake"}
            => (reader' = reader /\ Held' = Held)]_vars
    /\ [][last'.op \in {"mutate", "drop"}
            => /\ Cache' = Cache
               /\ \A limit \in Limits :
                     Slice(Cache', limit) = Slice(Cache, limit)]_vars

C8_Witness ==
    /\ last.op = "persist"
    /\ reader # 0
    /\ Held # <<>>
    /\ Cache # <<>>
    /\ \A limit \in Limits : Held # Slice(Cache, limit)

IsKept(s) == s.signal_strength \in {"STRONG", "MEDIUM"}

Magnitude(s) == FAbs(s.oi_change_percent)

NonIncreasing(list) ==
    \A i \in 1..(Len(list) - 1) : FLe(Magnitude(list[i + 1]), Magnitude(list[i]))

\* C9: every row of the signals table and every signal of the cache is
\* STRONG or MEDIUM, and the cache always holds at most 10 signals, in
\* non-increasing order of |oi_change_percent|.
C9_KeptAndRanked ==
    /\ \A i \in 1..Len(oi_signals) : IsKept(oi_signals[i].sig)
    /\ \A i \in 1..Len(Cache) : IsKept(Cache[i])
    /\ Len(Cache) <= TopSignals
    /\ NonIncreasing(Cache)

C9_Witness ==
    /\ Len(Cache) = TopSignals
    /\ Len(oi_signals) > TopSignals
    /\ \E i \in 1..Len(Cache) : Cache[i].signal_strength = "MEDIUM"
    /\ \E i \in 1..(Len(Cache) - 1) :
          FLt(Magnitude(Cache[i + 1]), Magnitude(Cache[i]))

HasIV(s) == FLe(Int2F(MinIV), s.implied_volatility)

\* The example of the claim: the call of strike 100 at price 105 whose open
\* interest goes from 5000 to 6200.
ExampleToken ==
    CHOOSE tok \in 1..Len(Catalog) : MixedTicks[tok] = Two(5000, 6200, 105)

ExampleScenario == Scenario(MixedTicks, TRUE, {4}, {7})

\* C10: every signal analyze_token_oi returns, and so every signal in
\* flight, in the table or in the cache, has implied_volatility >= 15; a
\* token whose estimate is lower yields no signal however large its move
\* (the call of strike 100 at 105 with OI 5000 -> 6200 is discarded).
C10_HardIVFilter ==
    /\ \A t \in Tasks : \A i \in 1..Len(signals[t]) : HasIV(signals[t][i])
    /\ \A i \in 1..Len(oi_signals) : HasIV(oi_signals[i].sig)
    /\ \A i \in 1..Len(Cache) : HasIV(Cache[i])
    /\ \A t \in Tasks :
         (InFlight(t) /\ last.task = t /\ last.touched = {"catalog", "ticks"})
         => \E scn \in Scenarios :
               /\ signals[t] = valid_signals(AnalyzeAll(scn, AllTokens))
               /\ \A i \in 1..Len(AllTokens) :
                     LET tok == AllTokens[i]
                         got == analyze_token_oi(scn, tok)
                         data == get_latest_oi_data(scn, tok)
                     IN  /\ got # <<>> => HasIV(got[1])
                         /\ (/\ Len(data) >= 2
                             /\ tok \notin scn.no_instrument
                             /\ FLt(calculate_implied_volatility(
                                        data[1].ltp,
                                        StrikeOr(Catalog[tok].strike, data[1].ltp),
                                        OptionTypeOf(Catalog[tok].symbol)),
                                    Int2F(MinIV)))
                            => got = <<>>

C10_Witness ==
    \E t \in Tasks :
        /\ InFlight(t)
        /\ signals[t] = valid_signals(AnalyzeAll(ExampleScenario, AllTokens))
        /\ \A i \in 1..Len(signals[t]) : signals[t][i].token # ExampleToken
        /\ LET data == get_latest_oi_data(ExampleScenario, ExampleToken)
           IN  /\ data = Two(5000, 6200, 105)
               /\ Catalog[ExampleToken].strike = <<100>>
               /\ OptionTypeOf(Catalog[ExampleToken].symbol) = "CE"
               /\ analyze_token_oi(ExampleScenario, ExampleToken) = <<>>

\* A signal analyze_token_oi has just returned.
Emitted ==
    IF last.op = "analyze_token_oi" /\ last.result # <<>>
    THEN {last.result[1]} ELSE {}

\* |f| >= k, for a rational f with a positive denominator.
Reaches(f, k) == Abs(f[1]) >= k * f[2]

StrengthRule(pct, iv, change) ==
    IF Reaches(pct, StrongOIChange) /\ iv[1] >= MinIV * iv[2]
       /\ Abs(change) >= MinOIAbsolute
    THEN "STRONG"
    ELSE IF Reaches(pct, MediumOIChange) /\ iv[1] >= MinIV * iv[2]
    THEN "MEDIUM"
    ELSE "WEAK"

\* C11: signal_strength is STRONG iff |oi_change_percent| >= 20 and
\* iv >= 15 and |oi_change| >= 1000, otherwise MEDIUM iff
\* |oi_change_percent| >= 10 and iv >= 15, otherwise WEAK, with inclusive
\* thresholds: for every call of determine_signal_strength and for the
\* fields of every signal analyze_token_oi emits.
C11_StrengthByThresholds ==
    /\ last.op = "determine_signal_strength"
         => last.result = StrengthRule(last.args[1], last.args[2], last.args[3])
    /\ \A s \in Emitted :
         /\ s.signal_strength =
                StrengthRule(s.oi_change_percent, s.implied_volatility,
                             s.oi_change)
         /\ s.signal_strength = "STRONG"
              => /\ Reaches(s.oi_change_percent, StrongOIChange)
                 /\ FLe(Int2F(MinIV), s.implied_volatility)
                 /\ Abs(s.oi_change) >= MinOIAbsolute

C11_Witness ==
    \E s \in Emitted :
        /\ s.oi_change_percent = Int2F(StrongOIChange)
        /\ s.oi_change = MinOIAbsolute
        /\ s.signal_strength = "STRONG"

TypeRule(change, option_type) ==
    CASE option_type = "CE" -> IF change > 0 THEN "BULLISH" ELSE "BEARISH"
      [] option_type = "PE" -> IF change > 0 THEN "BEARISH" ELSE "BULLISH"
      [] OTHER -> IF change > 0 THEN "BULLISH" ELSE "BEARISH"

\* C12: signal_type depends on (oi_change, option_type) only: a call with
\* oi_change > 0 is BULLISH, else BEARISH; a put with oi_change > 0 is
\* BEARISH, else BULLISH; a future with oi_change > 0 is BULLISH, else
\* BEARISH.  No signal has another type.
C12_TypeByChangeAndOption ==
    /\ (last.op = "determine_signal_type"
          /\ last.args[2] \in {"CE", "PE", "FUTURE"})
         => last.result = TypeRule(last.args[1], last.args[2])
    /\ \A s \in Emitted :
         /\ s.option_type \in {"CE", "PE", "FUTURE"}
         /\ s.signal_type = TypeRule(s.oi_change, s.option_type)
         /\ s.signal_type \in {"BULLISH", "BEARISH"}

C12_Witness ==
    \E s \in Emitted :
        /\ s.option_type = "PE"
        /\ s.oi_change = 0
        /\ s.signal_type = "BULLISH"

\* C13: an emitted signal takes current_oi from the newest sample and
\* previous_oi from the second newest, oi_change is their difference, and
\* oi_change_percent is oi_change / previous_oi x 100, or 0 when
\* previous_oi is 0, whatever current_oi is.
C13_DerivedOIFields ==
    /\ last.op = "calculate_oi_change_percent"
         => LET current_oi == last.args[1]
                previous_oi == last.args[2]
                pct == last.result
            IN  /\ pct[2] > 0
                /\ previous_oi = 0 => pct = <<0, 1>>
                /\ previous_oi # 0
                     => pct[1] * previous_oi
                            = (current_oi - previous_oi) * 100 * pct[2]
    /\ \A s \in Emitted :
         LET samples == last.args.samples
         IN  /\ s.current_oi = samples[1].oi
             /\ s.previous_oi = samples[2].oi
             /\ s.oi_change = samples[1].oi - samples[2].oi
             /\ s.previous_oi = 0 => s.oi_change_percent = <<0, 1>>
             /\ s.previous_oi # 0
                  => s.oi_change_percent[1] * s.previous_oi
                         = s.oi_change * 100 * s.oi_change_percent[2]

C13_Witness ==
    \E s \in Emitted :
        /\ Len(last.args.samples) = 3
        /\ s.previous_oi = 0
        /\ s.current_oi = 5000
        /\ s.oi_change = 5000
        /\ s.oi_change_percent = <<0, 1>>

\* C14: calculate_implied_volatility returns a number between 0 and 200
\* for every price, strike and option type, a price or a strike of 0
\* included (the division by a zero strike is caught and answered 15.0).
C14_IVWithinBounds ==
    last.op = "calculate_implied_volatility"
    => /\ last.result[2] > 0
       /\ 0 <= last.result[1]
       /\ last.result[1] <= 200 * last.result[2]

C14_Witness ==
    /\ last.op = "calculate_implied_volatility"
    /\ last.args[1] < 0
    /\ last.args[2] > 0
    /\ last.args[3] = "CE"
    /\ last.result = Int2F(200)

\* The data-quality gaps of a call of analyze_token_oi.
FewSamples == Len(last.args.samples) < 2

NoInstrument == ~last.args.found

ZeroPreviousOI == Len(last.args.samples) >= 2 /\ last.args.samples[2].oi = 0

\* C15 as stated: analyze_token_oi returns no signal for a token with fewer
\* than 2 samples, with no catalog entry or with a previous OI of 0.
C15_EveryGapYieldsNone ==
    (last.op = "analyze_token_oi"
       /\ (FewSamples \/ NoInstrument \/ ZeroPreviousOI))
    => last.result = <<>>

TokensOf(list) == {list[i].token : i \in 1..Len(list)}

\* C15, amended: analyze_token_oi returns no signal for a token with fewer
\* than 2 samples or with no catalog entry.  For a previous OI of 0 it may
\* emit a signal, which has oi_change_percent 0 and strength WEAK and is
\* dropped by the STRONG/MEDIUM filter of generate_signals; in each case the
\* cycle keeps no signal for the token and still keeps the signals of the
\* other tokens.
C15_GapsKeepNoSignal ==
    /\ (last.op = "analyze_token_oi" /\ (FewSamples \/ NoInstrument))
         => last.result = <<>>
    /\ (last.op = "analyze_token_oi" /\ ZeroPreviousOI)
         => /\ \A s \in Emitted :
                 /\ s.oi_change_percent = <<0, 1>>
                 /\ s.signal_strength = "WEAK"
            /\ valid_signals(last.result) = <<>>
    /\ (last.op = "generate_signals" /\ last.args.scn.catalog_ok
          /\ get_active_exchanges(last.args.now_ist) # <<>>)
         => \A i \in 1..Len(AllTokens) :
               LET token == AllTokens[i]
                   scn == last.args.scn
                   oi_data == IF token \in scn.tick_fail THEN <<>>
                              ELSE scn.ticks[token]
                   gap == \/ Len(oi_data) < 2
                          \/ token \in scn.no_instrument
                          \/ oi_data[2].oi = 0
                   one == analyze_token_oi(scn, token)
               IN  /\ gap => token \notin TokensOf(last.result)
                   /\ (one # <<>> /\ one[1].signal_strength # "WEAK")
                        => token \in TokensOf(last.result)

C15_Witness ==
    /\ last.op = "analyze_token_oi"
    /\ ZeroPreviousOI
    /\ \E s \in Emitted :
          /\ s.previous_oi = 0
          /\ s.oi_change = 6000
          /\ s.signal_strength = "WEAK"

\* A persist step of task t whose aggregation and analytics write went
\* through (or had nothing to write).
Aggregated(t) ==
    /\ InFlight(t)
    /\ last'.op = "persist"
    /\ last'.task = t
    /\ last'.result \in {"no analytics", "analytics stored"}

\* C16: the analytics records of a cycle are those computed from the
\* cycle's own kept signals and from nothing else, also when the write of
\* the signals failed.
C16_AnalyticsOfOwnSignals ==
    [][\A t \in Tasks :
         Aggregated(t)
         => oi_analytics' =
                oi_analytics \o calculate_market_analytics(Rows(signals[t]))]_vars

RowsOf(underlying) ==
    SelectSeq(oi_signals, LAMBDA r : r.sig.underlying = underlying)

RecordsOf(underlying) ==
    SelectSeq(oi_analytics, LAMBDA a : a.underlying = underlying)

CompletedCycle ==
    \/ last.op \in {"begin", "wake"} /\ last.result = "empty"
         /\ last.touched = {"catalog", "ticks"}
    \/ last.op = "persist"
         /\ last.result \in {"no analytics", "analytics stored"}

\* C17: after every completed cycle whose writes went through, each
\* underlying with a signal in the trailing 5-minute window has exactly one
\* new analytics record and every other underlying has none; the cache
\* holds signals only.
C17_OneRecordPerUnderlyingInWindow ==
    /\ CompletedCycle
         => \A i \in 1..Len(SUPPORTED_UNDERLYINGS) :
               Len(RecordsOf(SUPPORTED_UNDERLYINGS[i])) =
                   IF RowsOf(SUPPORTED_UNDERLYINGS[i]) # <<>> THEN 1 ELSE 0
    /\ \A i \in 1..Len(Cache) : "signal_strength" \in DOMAIN Cache[i]

\* The records a call of calculate_market_analytics returned, and the
\* signals of the call that belong to a record's underlying.
Records ==
    IF last.op = "calculate_market_analytics"
    THEN {last.result[i] : i \in 1..Len(last.result)} ELSE {}

GroupOf(record) ==
    SelectSeq(last.args, LAMBDA s : s.underlying = record.underlying)

RECURSIVE Total(_)
Total(sigs) == IF sigs = <<>> THEN 0 ELSE sigs[1].oi_change + Total(Tail(sigs))

OfType(sigs, option_type) ==
    SelectSeq(sigs, LAMBDA s : s.option_type = option_type)

\* C18: call_oi_change is the sum of oi_change over the CE signals of the
\* underlying, put_oi_change the sum over its PE signals, and
\* total_oi_change the sum over all of its signals, futures included.
C18_TotalsIncludeFutures ==
    \A a \in Records :
        /\ a.call_oi_change = Total(OfType(GroupOf(a), "CE"))
        /\ a.put_oi_change = Total(OfType(GroupOf(a), "PE"))
        /\ a.total_oi_change = Total(GroupOf(a))

Bullish(sigs) == Len(SelectSeq(sigs, LAMBDA s : s.signal_type = "BULLISH"))

Bearish(sigs) == Len(SelectSeq(sigs, LAMBDA s : s.signal_type = "BEARISH"))

\* C19: with b BULLISH and r BEARISH signals among the n of an underlying,
\* b > r gives BULLISH with score (b - r)/n, r > b gives BEARISH with score
\* -(r - b)/n, and b = r gives NEUTRAL with score exactly 0; the score lies
\* in [-1, 1] and has the sign of the sentiment.
C19_SentimentByCounts ==
    \A a \in Records :
        LET b == Bullish(GroupOf(a))
            r == Bearish(GroupOf(a))
            n == Len(GroupOf(a))
            score == a.sentiment_score
        IN  /\ score[2] > 0
            /\ b > r => /\ a.market_sentiment = "BULLISH"
                        /\ score[1] * n = (b - r) * score[2]
                        /\ score[1] > 0
            /\ r > b => /\ a.market_sentiment = "BEARISH"
                        /\ score[1] * n = (b - r) * score[2]
                        /\ score[1] < 0
            /\ b = r => /\ a.market_sentiment = "NEUTRAL"
                        /\ score = <<0, 1>>
            /\ -score[2] <= score[1]
            /\ score[1] <= score[2]

C19_Witness ==
    \E a \in Records, o \in Records :
        /\ a.market_sentiment = "NEUTRAL"
        /\ Len(GroupOf(a)) = 2
        /\ a.sentiment_score = <<0, 1>>
        /\ o.market_sentiment = "BEARISH"
        /\ o.sentiment_score = <<-1, 1>>

\* C20: pcr_oi is |put_oi_change / call_oi_change| when call_oi_change is
\* not 0 and 0 when it is, whatever put_oi_change is; it is never negative.
C20_PutCallRatio ==
    \A a \in Records :
        LET pcr == a.pcr_oi
        IN  /\ pcr[2] > 0
            /\ pcr[1] >= 0
            /\ a.call_oi_change = 0 => pcr = <<0, 1>>
            /\ a.call_oi_change # 0
                 => pcr[1] * Abs(a.call_oi_change)
                        = Abs(a.put_oi_change) * pcr[2]
            /\ a.call_oi_change = Total(OfType(GroupOf(a), "CE"))
            /\ a.put_oi_change = Total(OfType(GroupOf(a), "PE"))

C20_Witness ==
    \E a \in Records, o \in Records :
        /\ a.call_oi_change = 0
        /\ a.put_oi_change # 0
        /\ a.pcr_oi = <<0, 1>>
        /\ o.call_oi_change = 500
        /\ o.put_oi_change = -1000
        /\ o.pcr_oi = <<2, 1>>

\* The window of an exchange in minutes of the day, written out.
Opens(exchange) == IF exchange = "MCX" THEN 9 * 60 ELSE 9 * 60 + 20

Closes(exchange) == IF exchange = "MCX" THEN 23 * 60 + 30 ELSE 15 * 60 + 30

ShouldBeOpen(exchange, now_ist) ==
    /\ now_ist[1] \in 0..4
    /\ Opens(exchange) <= now_ist[2]
    /\ now_ist[2] <= Closes(exchange)

\* C21: is_market_open is false for every exchange on Saturday and Sunday,
\* and on Monday to Friday it is true iff the time of day lies within the
\* exchange's window, bounds included (MCX 09:00-23:30, NSE and NFO
\* 09:20-15:30); get_active_exchanges lists exactly the exchanges that are
\* open, each judged on its own.
C21_MarketHours ==
    /\ last.op = "is_market_open"
         => LET exchange == last.args[1]
                now_ist == last.args[2]
            IN  /\ now_ist[1] \in {5, 6} => last.result = FALSE
                /\ exchange \in {"MCX", "NSE", "NFO"}
                     => last.result = ShouldBeOpen(exchange, now_ist)
    /\ last.op = "get_active_exchanges"
         => \A e \in {"MCX", "NSE", "NFO"} :
               (\E i \in 1..Len(last.result) : last.result[i] = e)
                   <=> ShouldBeOpen(e, last.args)

C21_Witness ==
    /\ last.op = "get_active_exchanges"
    /\ last.args = <<4, 23 * 60>>
    /\ last.result = <<"MCX">>

StatusCall == last.op = "get_detailed_market_status"

Following(weekday) ==
    CASE weekday = 0 -> "Tuesday"
      [] weekday = 1 -> "Wednesday"
      [] weekday = 2 -> "Thursday"
      [] weekday = 3 -> "Friday"
      [] OTHER -> "Monday"

\* C22 as stated: the status reports Friday -> Monday / 3, Saturday ->
\* Monday / 2, Sunday -> Monday / 1 and Monday to Thursday -> the following
\* weekday / 1.
C22_NextTradingDayAndDistance ==
    StatusCall
        => LET weekday == last.args[1]
           IN  /\ last.result.next_trading_day = Following(weekday)
               /\ last.result.days_until_next_trading =
                      (CASE weekday = 4 -> 3
                         [] weekday = 5 -> 2
                         [] weekday = 6 -> 1
                         [] OTHER -> 1)

\* C22: the status reports as next_trading_day Monday on Friday, Saturday and
\* Sunday and the following weekday on Monday to Thursday; the reported
\* days_until_next_trading is 2 on Saturday, 1 on Sunday and 0 on Monday to
\* Friday, where the 3 or 1 days computed for the day are not reported.
C22_NextTradingDayReported ==
    StatusCall
        => LET weekday == last.args[1]
           IN  /\ last.result.next_trading_day = Following(weekday)
               /\ last.result.days_until_next_trading =
                      (CASE weekday = 5 -> 2
                         [] weekday = 6 -> 1
                         [] OTHER -> 0)

C22_Witness ==
    /\ StatusCall
    /\ last.args[1] = 4
    /\ last.result.current_day = "Friday"
    /\ last.result.next_trading_day = "Monday"
    /\ last.result.days_until_next_trading = 0

\* C23: days_until_next_trading is 0 whenever today is a trading day (Monday
\* to Friday) and is non-zero only on Saturday and Sunday.
C23_ZeroOnTradingDays ==
    StatusCall
        => /\ last.result.is_trading_day = (last.args[1] \in 0..4)
           /\ last.result.is_trading_day
                => last.result.days_until_next_trading = 0
           /\ last.result.days_until_next_trading # 0
                => last.args[1] \in {5, 6}

C23_Witness ==
    /\ StatusCall
    /\ last.args = <<1, 12 * 60>>
    /\ last.result.is_trading_day
    /\ last.result.is_any_market_open
    /\ last.result.days_until_next_trading = 0

\* A step of the loop that runs as task t: its position changes, or it leaves
\* a sleep that is over for a new one.  Scheduling the task is not one.
StepOf(t) ==
    /\ pc'[t] # "created"
    /\ pc'[t] # pc[t] \/ remaining'[t] > remaining[t]

CycleOutcomes ==
    {"empty", "no analytics", "analytics failed", "analytics stored",
     "analytics lost"}

\* C24: every loop iteration suspends exactly once and the sleep follows from
\* how the iteration ended: 60 s when no exchange was open, 300 s after a
\* completed cycle, 60 s after an exception.  An iteration begins only when
\* the task starts or when a sleep has run to its end, and it ends only in a
\* sleep; the loop is left only at its test.
C24_OneSleepPerIteration ==
    [][\A t \in Tasks :
         StepOf(t)
           => /\ last'.task = t
              /\ pc[t] \in {"created", "cycle"} \cup Sleeping
              /\ pc[t] \in Sleeping => remaining[t] = 0
              /\ pc[t] = "cycle" => pc'[t] \in Sleeping
              /\ pc'[t] \in Sleeping \cup {"cycle", "done"}
              /\ pc'[t] = "cycle" => pc[t] # "cycle"
              /\ pc'[t] = "done" => pc[t] \in Sleeping /\ ~is_running
              /\ pc'[t] = "sleep_closed"
                   <=> last'.result = "closed"
              /\ pc'[t] = "sleep_cycle"
                   <=> last'.result \in CycleOutcomes /\ last'.raised = "none"
              /\ pc'[t] = "sleep_error" <=> last'.raised # "none"
              /\ pc'[t] = "sleep_closed" => remaining'[t] = 1
              /\ pc'[t] = "sleep_cycle" => remaining'[t] = 5
              /\ pc'[t] = "sleep_error" => remaining'[t] = 1]_vars

C24_Witness ==
    \E t \in Tasks :
        /\ pc[t] = "sleep_cycle"
        /\ remaining[t] = 5
        /\ last.op = "persist"
        /\ last.task = t
        /\ last.result = "analytics lost"
        /\ last.stored = 0

AnalyzeCall == last.op = "analyze_token_oi"

\* A CE or PE instrument of the catalog whose strike is null or 0.
StrikeMissing(token) ==
    /\ OptionTypeOf(Catalog[token].symbol) \in {"CE", "PE"}
    /\ Catalog[token].strike \in {<<>>, <<0>>}

\* C25: for a CE or PE instrument whose catalog strike is null or 0 the
\* analyzer takes the current price for the strike, the IV is the floor 5.0,
\* below the threshold, and the token yields no signal, at every current
\* price, 0 included.
C25_MissingStrikeYieldsNoSignal ==
    AnalyzeCall /\ StrikeMissing(last.args.token) => last.result = <<>>

\* The proxy as a quotient <<numerator, denominator>> over the strike, for a
\* strike above 0: in the money 100 x distance / strike, at most 100; else
\* 50 x distance / strike, at least 5.
ProxyInTheMoney(distance, strike) ==
    IF distance * 100 >= 100 * strike THEN <<100, 1>>
    ELSE <<distance * 100, strike>>

ProxyOutOfTheMoney(distance, strike) ==
    IF distance * 50 <= 5 * strike THEN <<5, 1>>
    ELSE <<distance * 50, strike>>

Proxy(price, strike, option_type) ==
    IF option_type \in {"CE", "CALL"}
    THEN IF price > strike THEN ProxyInTheMoney(price - strike, strike)
         ELSE ProxyOutOfTheMoney(strike - price, strike)
    ELSE IF option_type \in {"PE", "PUT"}
    THEN IF price < strike THEN ProxyInTheMoney(strike - price, strike)
         ELSE ProxyOutOfTheMoney(price - strike, strike)
    ELSE <<15, 1>>

ClampedProxy(price, strike, option_type) ==
    LET q == Proxy(price, strike, option_type)
    IN  IF q[1] > 200 * q[2] THEN <<200, 1>>
        ELSE IF q[1] < 0 THEN <<0, 1>>
        ELSE q

\* The example: a put struck at 5000, priced 3000, whose OI fell from 2000
\* to 1000.
IsExamplePut(s) ==
    /\ s.option_type = "PE"
    /\ s.strike_price = <<5000>>
    /\ s.current_price = 3000
    /\ s.previous_oi = 2000
    /\ s.current_oi = 1000

\* C26: for every price, strike above 0 and option type the IV estimate is
\* the piecewise proxy (CE in the money min(100 x (price - strike) / strike,
\* 100), else max(50 x (strike - price) / strike, 5); PE mirrored; 15 for a
\* future), clamped to [0, 200].  A put struck at 5000 and priced 3000 whose
\* OI fell from 2000 to 1000 gets IV 40 and is a STRONG BULLISH signal.
C26_IVIsTheProxy ==
    /\ last.op = "calculate_implied_volatility" /\ last.args[2] > 0
         => LET q == ClampedProxy(last.args[1], last.args[2], last.args[3])
            IN  /\ last.result[2] > 0
                /\ last.result[1] * q[2] = q[1] * last.result[2]
    /\ last.op = "generate_signals"
         => \A i \in 1..Len(last.result) :
               IsExamplePut(last.result[i])
                   => /\ last.result[i].implied_volatility = <<40, 1>>
                      /\ last.result[i].signal_strength = "STRONG"
                      /\ last.result[i].signal_type = "BULLISH"

C26_Witness ==
    /\ last.op = "generate_signals"
    /\ \E i \in 1..Len(last.result) :
          /\ IsExamplePut(last.result[i])
          /\ last.result[i].implied_volatility = <<40, 1>>
          /\ last.result[i].signal_strength = "STRONG"
          /\ last.result[i].signal_type = "BULLISH"

Size(n) == IF n < 0 THEN 0 - n ELSE n

\* The place in sigs of the first signal with the greatest |oi_change|.
IsFirstGreatest(sigs, i) ==
    /\ \A j \in 1..Len(sigs) :
          Size(sigs[j].oi_change) <= Size(sigs[i].oi_change)
    /\ \A j \in 1..(i - 1) :
          Size(sigs[j].oi_change) < Size(sigs[i].oi_change)

\* change and token are those of the first greatest signal of sigs, or 0 and
\* the empty token (written 0) when sigs is empty.
IsMaxOf(sigs, change, token) ==
    IF sigs = <<>> THEN change = 0 /\ token = 0
    ELSE \E i \in 1..Len(sigs) :
            /\ IsFirstGreatest(sigs, i)
            /\ change = sigs[i].oi_change
            /\ token = sigs[i].token

\* C27: for each aggregated underlying max_call_oi_change and
\* max_call_oi_token are the signed oi_change and the token of the CE signal
\* with the greatest |oi_change|, the first encountered winning a tie, and 0
\* and the empty token when the underlying has no CE signal; the same for PE
\* with max_put_oi_change and max_put_oi_token.
C27_MaxCallAndPut ==
    \A a \in Records :
        /\ IsMaxOf(OfType(GroupOf(a), "CE"), a.max_call_oi_change,
                   a.max_call_oi_token)
        /\ IsMaxOf(OfType(GroupOf(a), "PE"), a.max_put_oi_change,
                   a.max_put_oi_token)

C27_Witness ==
    \E a \in Records :
        LET calls == OfType(GroupOf(a), "CE")
        IN  /\ Len(calls) = 3
            /\ calls[1].oi_change = 500
            /\ calls[2].oi_change = -1000
            /\ calls[3].oi_change = 1000
            /\ a.max_call_oi_change = -1000
            /\ a.max_call_oi_token = calls[2].token
            /\ a.max_put_oi_change = 0
            /\ a.max_put_oi_token = 0

\* The tasks whose loop has begun and has not returned.
Looping == {t \in Tasks : pc[t] \in Sleeping \cup {"cycle"}}

\* C28: after any sequence of start and stop requests, each start guarded by
\* the is_running test, at most one run_signal_analysis loop is alive at any
\* time.
C28_AtMostOneLoop == Cardinality(Looping) <= 1

\* Task t stores the signals of its cycle in this step.
Stores(t) == pc[t] = "cycle" /\ pc'[t] # "cycle"

\* The last n rows of the table after the step are the signals of the cycle.
Appended(t) ==
    LET n == Len(signals[t])
    IN  /\ Len(oi_signals') = Len(oi_signals) + n
        /\ \A i \in 1..Len(oi_signals) : oi_signals'[i] = oi_signals[i]
        /\ \A i \in 1..n : oi_signals'[Len(oi_signals) + i].sig = signals[t][i]

\* C29: store_signals is all-or-nothing per cycle: it returns, and either
\* every kept signal of the cycle is committed and the count is returned, or
\* none is and 0 is returned; no part of the batch is committed alone and no
\* exception of store_signals reaches the loop.
C29_StoreSignalsAllOrNothing ==
    [][\A t \in Tasks :
         Stores(t)
           => \/ last'.stored = Len(signals[t]) /\ Appended(t)
              \/ last'.stored = 0 /\ oi_signals' = oi_signals]_vars

\* C30: a loop holds at most one open session: the session of an iteration
\* is closed before the next one is opened, on every path out of the
\* iteration.  It is held through the sleep of a closed market and of a
\* completed cycle and closed when the sleep is over; after an exception it
\* is closed before the back-off; none is open once the loop has returned.
C30_OneSessionPerLoop ==
    \A t \in Tasks :
        /\ db[t] \in {0, 1}
        /\ pc[t] \in {"none", "created", "done"} => db[t] = 0
        /\ pc[t] = "sleep_error" => db[t] = 0
        /\ pc[t] \in {"cycle", "sleep_closed", "sleep_cycle"} => db[t] = 1

C30_Witness ==
    \E t \in Tasks :
        /\ pc[t] = "sleep_error"
        /\ db[t] = 0
        /\ last.op = "persist"
        /\ last.task = t
        /\ last.raised = "rollback"
        /\ last.stored > 0

=============================================================================
